---- MODULE Spec2Model ----
(***************************************************************************)
(* NutriVision (src/app.py): a Streamlit page script.  Every user          *)
(* interaction reruns the script top to bottom: credential check, upload   *)
(* size check, prepare_image, Analyze button, analyze_food_image (encode,  *)
(* build the request body, one requests.post, classify the response) and   *)
(* st.write of the result.                                                 *)
(*                                                                         *)
(* Text is a sequence of string pieces (its concatenation is the Python    *)
(* string); the non-ASCII warning sign that opens the messages of the      *)
(* source is written "(!)".  Temperatures are in hundredths (30 = 0.30).   *)
(***************************************************************************)
EXTENDS Integers, Sequences, FiniteSets, TLC

VARIABLES pc, GROQ_API_KEY, uploaded, pressed, user_prompt, temperature,
          image, payload, sent, resp, result, log, screen, prev_url

\* pc            where the script run is: idle, config, upload, prepare, button,
\*               encode, post, classify, write; done, stopped (st.stop) or
\*               crashed (an uncaught exception)
\* GROQ_API_KEY  the credential the run loaded
\* uploaded, pressed, user_prompt, temperature   the widgets' values of the run
\* image         the prepared image, NoImage for None
\* payload, sent, resp, result   analyze_food_image's payload, the requests it
\*               posted, what requests.post came back with, what it returned
\* log           the calls of the run, in order
\* screen        what the run displayed, in order
\* prev_url      history: the data URI sent by the latest earlier run that posted
vars == <<pc, GROQ_API_KEY, uploaded, pressed, user_prompt, temperature,
          image, payload, sent, resp, result, log, screen, prev_url>>

(***************************************************************************)
(* Bounds of the model.                                                    *)
(***************************************************************************)
\* prepare_image is exercised on widths/heights MAX_EDGE-DimSpread .. MAX_EDGE+DimSpread
DimSpread == 2
\* ... and on the multiples 1*HalfEdge .. MaxMult*HalfEdge
MaxMult == 5

(***************************************************************************)
(* Program constants.                                                      *)
(***************************************************************************)
GROQ_API_URL == "https://api.groq.com/openai/v1/chat/completions"
MODEL_NAME == "meta-llama/llama-4-scout-17b-16e-instruct"
MAX_EDGE == 900
MAX_UPLOAD_BYTES == 4 * 1024 * 1024
PREPARE_QUALITY == 75
ENCODE_QUALITY == 80
MAX_TOKENS == 700
TIMEOUT_S == 120
STATUS_TOO_LARGE == 413
SLIDER_MIN == 0
SLIDER_DEFAULT == 30
SLIDER_MAX == 100

MSG_MISSING_KEY == <<"(x) Missing GROQ_API_KEY. Add it to .env (local) or Streamlit Secrets (cloud).">>
MSG_UPLOAD_TOO_LARGE == <<"(x) Image too large. Upload < 4MB.">>
MSG_STILL_TOO_LARGE == <<"(!) The image is still too large. Try uploading a smaller image.">>
MSG_API_ERROR == "(!) API error "
MSG_COMM_ERROR == "(!) Error communicating with Groq API: "
MSG_UPLOAD_FIRST == <<"Please upload a meal image first.">>
default_prompt == <<"You are a professional nutritionist. Identify each visible food item in the image. ...">>

(***************************************************************************)
(* Python values (the parsed JSON of a response body, and what a function  *)
(* returns): a tag t and a value v.  A dict is a sequence of <<key, value>>*)
(* pairs in insertion order.                                               *)
(***************************************************************************)
PyNone == [t |-> "none", v |-> <<>>]
PyStr(s) == [t |-> "str", v |-> s]
PyInt(n) == [t |-> "int", v |-> n]
PyList(l) == [t |-> "list", v |-> l]
PyDict(items) == [t |-> "dict", v |-> items]
Unset == [t |-> "unset", v |-> <<>>]

IsStr(x) == x.t = "str"

Exc(type, msg) == [type |-> type, msg |-> msg]
NoExc == Exc("", <<>>)
Return(x) == [raised |-> FALSE, v |-> x, exc |-> NoExc]
Raise(e) == [raised |-> TRUE, v |-> Unset, exc |-> e]

RECURSIVE PyRepr(_)
RECURSIVE ReprItems(_)
RECURSIVE ReprPairs(_)
\* the elements of a list, comma separated
ReprItems(l) ==
    IF l = <<>> THEN <<>>
    ELSE PyRepr(Head(l)) \o (IF Len(l) > 1 THEN <<", ">> ELSE <<>>) \o ReprItems(Tail(l))
\* the items of a dict, 'key': value, comma separated
ReprPairs(items) ==
    IF items = <<>> THEN <<>>
    ELSE <<"'", Head(items)[1], "'", ": ">> \o PyRepr(Head(items)[2])
         \o (IF Len(items) > 1 THEN <<", ">> ELSE <<>>) \o ReprPairs(Tail(items))
\* repr(x)
PyRepr(x) ==
    CASE x.t = "none" -> <<"None">>
      [] x.t = "int" -> <<ToString(x.v)>>
      [] x.t = "str" -> <<"'">> \o x.v \o <<"'">>
      [] x.t = "list" -> <<"[">> \o ReprItems(x.v) \o <<"]">>
      [] x.t = "dict" -> <<"{">> \o ReprPairs(x.v) \o <<"}">>

\* what an f-string puts for {x}: str(x), a string without its quotes
PyFormat(x) == IF x.t = "str" THEN x.v ELSE PyRepr(x)

TypeName(x) ==
    CASE x.t = "none" -> "NoneType"
      [] x.t = "int" -> "int"
      [] x.t = "str" -> "str"
      [] x.t = "list" -> "list"
      [] x.t = "dict" -> "dict"

\* x[key] for a string key
GetItemStr(x, key) ==
    CASE x.t = "dict" ->
           IF \E i \in 1..Len(x.v) : x.v[i][1] = key
           THEN Return(x.v[CHOOSE i \in 1..Len(x.v) : x.v[i][1] = key][2])
           ELSE Raise(Exc("KeyError", <<"'", key, "'">>))
      [] x.t = "list" ->
           Raise(Exc("TypeError", <<"list indices must be integers or slices, not str">>))
      [] x.t = "str" ->
           Raise(Exc("TypeError", <<"string indices must be integers, not 'str'">>))
      [] OTHER ->
           Raise(Exc("TypeError", <<"'", TypeName(x), "' object is not subscriptable">>))

\* x[i] for the integer index i (0-based); a dict has no integer key here
\* (JSON keys are strings); a string is indexed by piece
GetItemInt(x, i) ==
    CASE x.t = "list" ->
           IF i < Len(x.v) THEN Return(x.v[i + 1])
           ELSE Raise(Exc("IndexError", <<"list index out of range">>))
      [] x.t = "str" ->
           IF i < Len(x.v) THEN Return(PyStr(<<x.v[i + 1]>>))
           ELSE Raise(Exc("IndexError", <<"string index out of range">>))
      [] x.t = "dict" ->
           Raise(Exc("KeyError", <<ToString(i)>>))
      [] OTHER ->
           Raise(Exc("TypeError", <<"'", TypeName(x), "' object is not subscriptable">>))

(***************************************************************************)
(* Images.  An uploaded file has a declared size and, when its bytes       *)
(* decode, a width, a height and a mode.  A PIL image has a size, a mode   *)
(* and the format of the file it was opened from.                          *)
(***************************************************************************)
NoFile == [present |-> FALSE, size |-> 0, decodable |-> FALSE, width |-> 0, height |-> 0, mode |-> ""]
File(size, w, h, mode) ==
    [present |-> TRUE, size |-> size, decodable |-> TRUE, width |-> w, height |-> h, mode |-> mode]
Corrupt(size) ==
    [present |-> TRUE, size |-> size, decodable |-> FALSE, width |-> 0, height |-> 0, mode |-> ""]
NoImage == [width |-> 0, height |-> 0, mode |-> "", format |-> ""]
Img(w, h, mode, format) == [width |-> w, height |-> h, mode |-> mode, format |-> format]

Abs(n) == IF n < 0 THEN 0 - n ELSE n
Max2(a, b) == IF a >= b THEN a ELSE b

CeilDiv(a, b) == IF a % b = 0 THEN a \div b ELSE a \div b + 1

\* PIL round_aspect(number, key): whichever of f = floor(number) and
\* c = ceil(number) has the smaller key (f on a tie), at least 1.  The keys are
\* the fractions kfNum/kfDen and kcNum/kcDen, compared by cross-multiplication.
RoundAspect(f, c, kfNum, kfDen, kcNum, kcDen) ==
    Max2(IF kfNum * kcDen <= kcNum * kfDen THEN f ELSE c, 1)

\* the new width when the height y is kept: round_aspect(y * aspect,
\* key = |aspect - n / y|), aspect = w / h; the key is taken times h * y
ScaledWidth(w, h, y) ==
    LET f == (y * w) \div h
        c == CeilDiv(y * w, h)
    IN RoundAspect(f, c, Abs(w * y - f * h), 1, Abs(w * y - c * h), 1)

\* the new height when the width x is kept: round_aspect(x / aspect,
\* key = 0 if n == 0 else |aspect - x / n|); the key is taken times h
ScaledHeight(w, h, x) ==
    LET f == (x * h) \div w
        c == CeilDiv(x * h, w)
    IN RoundAspect(f, c,
                   IF f = 0 THEN 0 ELSE Abs(w * f - x * h), IF f = 0 THEN 1 ELSE f,
                   IF c = 0 THEN 0 ELSE Abs(w * c - x * h), IF c = 0 THEN 1 ELSE c)

\* (mutant) thumbnail that also scales an image that already fits
ThumbnailSizeMutNoGuard(w, h, x, y) ==
    IF x * h >= y * w THEN <<ScaledWidth(w, h, y), y>> ELSE <<x, ScaledHeight(w, h, x)>>
\* Image.thumbnail((x, y)) on an image of size w x h: the new size
\* (preserve_aspect_ratio; the image is left alone when it already fits)
ThumbnailSize(w, h, x, y) ==
    IF x >= w /\ y >= h THEN <<w, h>>
    ELSE IF x * h >= y * w THEN <<ScaledWidth(w, h, y), y>>
    ELSE <<x, ScaledHeight(w, h, x)>>

\* Image.open(f): raises when the bytes are no image
ImageOpen(f) ==
    IF f.decodable THEN Return(Img(f.width, f.height, f.mode, "upload"))
    ELSE Raise(Exc("UnidentifiedImageError", <<"cannot identify image file">>))

\* img.save(buf, format="JPEG", quality=q): the bytes written.  SOI, a
\* quality-dependent table byte, the frame header's height and width as
\* 16-bit big-endian numbers, EOI.  JPEG writes only some modes.
JpegWritable(mode) == mode \in {"1", "L", "RGB", "RGBX", "CMYK", "YCbCr"}
JpegSave(img, q) ==
    IF JpegWritable(img.mode)
    THEN Return(<<255, 216, q, img.height \div 256, img.height % 256,
                  img.width \div 256, img.width % 256, 255, 217>>)
    ELSE Raise(Exc("OSError", <<"cannot write mode ", img.mode, " as JPEG">>))
\* Image.open on JPEG bytes
JpegOpen(bytes) ==
    Img(bytes[6] * 256 + bytes[7], bytes[4] * 256 + bytes[5], "RGB", "JPEG")

\* (mutant) prepare_image without convert("RGB")
prepare_imageMutNoConvert(f) ==
    LET opened == ImageOpen(f) IN
    IF opened.raised THEN opened
    ELSE LET sz == ThumbnailSize(opened.v.width, opened.v.height, MAX_EDGE, MAX_EDGE)
             small == [opened.v EXCEPT !.width = sz[1], !.height = sz[2]]
             buf == JpegSave(small, PREPARE_QUALITY)
         IN IF buf.raised THEN buf ELSE Return(JpegOpen(buf.v))
\* prepare_image(uploaded_file)
prepare_image(f) ==
    LET opened == ImageOpen(f) IN
    IF opened.raised THEN opened
    ELSE LET rgb == [opened.v EXCEPT !.mode = "RGB"]
             sz == ThumbnailSize(rgb.width, rgb.height, MAX_EDGE, MAX_EDGE)
             small == [rgb EXCEPT !.width = sz[1], !.height = sz[2]]
             buf == JpegSave(small, PREPARE_QUALITY)
         IN IF buf.raised THEN buf ELSE Return(JpegOpen(buf.v))

(***************************************************************************)
(* base64.b64encode: three bytes become four characters of the standard    *)
(* alphabet, the last group padded with "=".                                *)
(***************************************************************************)
B64Alphabet ==
    <<"A","B","C","D","E","F","G","H","I","J","K","L","M","N","O","P",
      "Q","R","S","T","U","V","W","X","Y","Z","a","b","c","d","e","f",
      "g","h","i","j","k","l","m","n","o","p","q","r","s","t","u","v",
      "w","x","y","z","0","1","2","3","4","5","6","7","8","9","+","/">>
B64Char(n) == B64Alphabet[n + 1]
RECURSIVE b64encode(_)
b64encode(bytes) ==
    IF bytes = <<>> THEN <<>>
    ELSE IF Len(bytes) = 1 THEN
        <<B64Char(bytes[1] \div 4), B64Char((bytes[1] % 4) * 16), "=", "=">>
    ELSE IF Len(bytes) = 2 THEN
        <<B64Char(bytes[1] \div 4),
          B64Char((bytes[1] % 4) * 16 + bytes[2] \div 16),
          B64Char((bytes[2] % 16) * 4), "=">>
    ELSE
        <<B64Char(bytes[1] \div 4),
          B64Char((bytes[1] % 4) * 16 + bytes[2] \div 16),
          B64Char((bytes[2] % 16) * 4 + bytes[3] \div 64),
          B64Char(bytes[3] % 64)>> \o b64encode(SubSeq(bytes, 4, Len(bytes)))

\* encode_image_to_b64(image)
encode_image_to_b64(img) ==
    LET buf == JpegSave(img, ENCODE_QUALITY) IN
    IF buf.raised THEN buf ELSE Return(b64encode(buf.v))

DataUri(b64) == <<"data:image/jpeg;base64,">> \o b64

(***************************************************************************)
(* The request.                                                            *)
(***************************************************************************)
HEADERS(key) == [Authorization |-> <<"Bearer ", key>>, ContentType |-> "application/json"]

\* (mutant) a temperature of 0.0 is taken for "not given" and replaced by the default
BuildPayloadMutFalsyTemp(prompt, img_b64, temp) ==
    [model |-> MODEL_NAME,
     messages |-> << [role |-> "user",
                      content |-> << [type |-> "text", text |-> prompt],
                                     [type |-> "image_url",
                                      image_url |-> [url |-> DataUri(img_b64)]] >>] >>,
     max_tokens |-> MAX_TOKENS,
     temperature |-> IF temp = 0 THEN SLIDER_DEFAULT ELSE temp,
     stream |-> FALSE]
\* the payload dict of analyze_food_image
BuildPayload(prompt, img_b64, temp) ==
    [model |-> MODEL_NAME,
     messages |-> << [role |-> "user",
                      content |-> << [type |-> "text", text |-> prompt],
                                     [type |-> "image_url",
                                      image_url |-> [url |-> DataUri(img_b64)]] >>] >>,
     max_tokens |-> MAX_TOKENS,
     temperature |-> temp,
     stream |-> FALSE]
NoPayload == [none |-> TRUE]

Request(key, body) ==
    [url |-> GROQ_API_URL, headers |-> HEADERS(key), json |-> body, timeout |-> TIMEOUT_S]

(***************************************************************************)
(* What requests.post can come back with: an exception, or a response with *)
(* a status code and a body that parses as JSON (text = FALSE) or does not.*)
(***************************************************************************)
Response(status, body) == [kind |-> "response", status_code |-> status, body |-> body, exc |-> NoExc]
PostRaises(e) == [kind |-> "raise", status_code |-> 0, body |-> [text |-> TRUE, v |-> Unset], exc |-> e]
NoResponse == [kind |-> "none", status_code |-> 0, body |-> [text |-> TRUE, v |-> Unset], exc |-> NoExc]
Json(x) == [text |-> FALSE, v |-> x]
NotJson == [text |-> TRUE, v |-> Unset]

Choice(content) == PyDict(<< <<"message", PyDict(<< <<"role", PyStr(<<"assistant">>)>>, <<"content", content>> >>)>> >>)
Bodies ==
    { NotJson,
      Json(PyDict(<< <<"choices", PyList(<<Choice(PyStr(<<"Apple - ~95 cal">>))>>)>> >>)),
      Json(PyDict(<< <<"id", PyStr(<<"c1">>)>>,
                     <<"choices", PyList(<<Choice(PyStr(<<" ", "1) Rice - ~200 cal", "\n">>)),
                                           Choice(PyStr(<<"Pear">>))>>)>> >>)),
      Json(PyDict(<< <<"choices", PyList(<<Choice(PyNone)>>)>> >>)),
      Json(PyDict(<< <<"choices", PyList(<<>>)>> >>)),
      Json(PyDict(<< <<"choices", PyList(<<PyDict(<< <<"message", PyDict(<<>>)>> >>)>>)>> >>)),
      Json(PyDict(<< <<"choices", PyStr(<<"a", "b">>)>> >>)),
      Json(PyDict(<< <<"error", PyStr(<<"bad request">>)>> >>)),
      Json(PyDict(<< <<"error", PyDict(<< <<"message", PyStr(<<"Rate limit reached">>)>>,
                                          <<"code", PyInt(429)>> >>)>> >>)),
      Json(PyList(<<>>)),
      Json(PyStr(<<"oops">>)),
      Json(PyNone) }

Statuses == {200, 201, 304, 400, STATUS_TOO_LARGE, 500}

Outcomes ==
    { Response(st, b) : st \in Statuses, b \in Bodies }
    \cup { PostRaises(Exc("ConnectionError", <<"Failed to establish a new connection">>)),
           PostRaises(Exc("ReadTimeout", <<"Read timed out. (read timeout=", ToString(TIMEOUT_S), ")">>)) }

\* (mutant) only server errors are not ok
OkMutServerOnly(r) == ~(500 <= r.status_code /\ r.status_code < 600)
\* Response.ok: raise_for_status() does not raise
Ok(r) == ~(400 <= r.status_code /\ r.status_code < 600)

\* the HTTPError of Response.raise_for_status()
HTTPError(r) ==
    Exc("HTTPError",
        <<ToString(r.status_code),
          IF r.status_code < 500 THEN " Client Error: " ELSE " Server Error: ",
          "for url: ", GROQ_API_URL>>)

\* Response.json()
RespJson(r) ==
    IF r.body.text
    THEN Raise(Exc("JSONDecodeError", <<"Expecting value: line 1 column 1 (char 0)">>))
    ELSE Return(r.body.v)

\* (mutant) takes the last choice
FirstContentMutLast(data) ==
    LET a == GetItemStr(data, "choices") IN
    IF a.raised THEN a ELSE
    LET b == IF a.v.t = "list" /\ a.v.v /= <<>> THEN Return(a.v.v[Len(a.v.v)]) ELSE GetItemInt(a.v, 0) IN
    IF b.raised THEN b ELSE
    LET c == GetItemStr(b.v, "message") IN
    IF c.raised THEN c ELSE GetItemStr(c.v, "content")
\* data["choices"][0]["message"]["content"]
FirstContent(data) ==
    LET a == GetItemStr(data, "choices") IN
    IF a.raised THEN a ELSE
    LET b == GetItemInt(a.v, 0) IN
    IF b.raised THEN b ELSE
    LET c == GetItemStr(b.v, "message") IN
    IF c.raised THEN c ELSE GetItemStr(c.v, "content")

\* f"(!) API error {resp.status_code}: {resp.json()}"
ApiErrorText(r, parsed) == PyStr(<<MSG_API_ERROR, ToString(r.status_code), ": ">> \o PyFormat(parsed))
\* (mutant) the message without the exception's description
CommErrorTextMutNoDesc(e) == PyStr(<<MSG_COMM_ERROR>>)
\* f"(!) Error communicating with Groq API: {e}"
CommErrorText(e) == PyStr(<<MSG_COMM_ERROR>> \o e.msg)

\* (mutant) the generic error rule is tried before the 413 rule
HandleResponseMutOrder(r) ==
    IF ~Ok(r) THEN
        LET parsed == RespJson(r) IN
        IF ~parsed.raised THEN Return(ApiErrorText(r, parsed.v))
        ELSE Raise(HTTPError(r))
    ELSE IF r.status_code = STATUS_TOO_LARGE THEN Return(PyStr(MSG_STILL_TOO_LARGE))
    ELSE LET data == RespJson(r) IN IF data.raised THEN data ELSE FirstContent(data.v)
\* the body of the try block of analyze_food_image, after requests.post returned r
HandleResponse(r) ==
    IF r.status_code = STATUS_TOO_LARGE THEN Return(PyStr(MSG_STILL_TOO_LARGE))
    ELSE IF ~Ok(r) THEN
        LET parsed == RespJson(r) IN
        IF ~parsed.raised THEN Return(ApiErrorText(r, parsed.v))
        ELSE IF ~Ok(r) THEN Raise(HTTPError(r))
        ELSE LET data == RespJson(r) IN IF data.raised THEN data ELSE FirstContent(data.v)
    ELSE LET data == RespJson(r) IN IF data.raised THEN data ELSE FirstContent(data.v)

\* the try statement: what analyze_food_image returns for the outcome of the post
TryPost(outcome) ==
    LET r == IF outcome.kind = "raise" THEN Raise(outcome.exc) ELSE HandleResponse(outcome) IN
    IF r.raised THEN Return(CommErrorText(r.exc)) ELSE r

(***************************************************************************)
(* Inputs of a rerun of the script.                                        *)
(***************************************************************************)
NONE == "None"
Falsy(k) == k \in {NONE, ""}
EnvKeys == {NONE, "", "gsk_live"}
SecretKeys == {NONE, "gsk_live"}
Prompts == {default_prompt, <<"List the foods.">>}
Temps == {SLIDER_MIN, SLIDER_DEFAULT, SLIDER_MAX}
\* an upload under the limit, one of exactly 4 MiB, one a byte over, a
\* corrupt one within the limit
Uploads ==
    { NoFile,
      Corrupt(2048),
      Corrupt(MAX_UPLOAD_BYTES),
      File(2048, 450, 300, "RGB"),
      File(2048, 1800, 1200, "RGBA"),
      File(MAX_UPLOAD_BYTES, 900, 900, "RGB"),
      File(MAX_UPLOAD_BYTES, 600, 2400, "RGBA"),
      File(MAX_UPLOAD_BYTES + 1, 1800, 1200, "RGB"),
      Corrupt(MAX_UPLOAD_BYTES + 1) }

HalfEdge == MAX_EDGE \div 2
PrepDims ==
    {1, 7} \cup ((MAX_EDGE - DimSpread)..(MAX_EDGE + DimSpread))
    \cup {k * HalfEdge : k \in 1..MaxMult}
PrepUploads == {File(2048, w, h, "RGB") : w \in PrepDims, h \in PrepDims}

Terminal == {"done", "stopped", "crashed"}
Widget(w, x) == [widget |-> w, v |-> x]

\* (mutant) rejects an upload of exactly 4 MiB too
UploadTooLargeMutGeq(f) == f.size >= MAX_UPLOAD_BYTES
\* uploaded.size > 4 * 1024 * 1024
UploadTooLarge(f) == f.size > MAX_UPLOAD_BYTES

(***************************************************************************)
(* The script.                                                             *)
(***************************************************************************)
Init ==
    /\ pc = "idle"
    /\ GROQ_API_KEY = NONE
    /\ uploaded = NoFile
    /\ pressed = FALSE
    /\ user_prompt = default_prompt
    /\ temperature = SLIDER_DEFAULT
    /\ image = NoImage
    /\ payload = NoPayload
    /\ sent = <<>>
    /\ resp = NoResponse
    /\ result = Unset
    /\ log = <<>>
    /\ screen = <<>>
    /\ prev_url = <<>>

\* a user interaction: Streamlit reruns the script with the widgets' values
Rerun(up, btn, prompt, temp) ==
    /\ pc \in Terminal \cup {"idle"}
    /\ pc' = "config"
    /\ uploaded' = up
    /\ pressed' = btn
    /\ user_prompt' = prompt
    /\ temperature' = temp
    /\ GROQ_API_KEY' = NONE
    /\ image' = NoImage
    /\ payload' = NoPayload
    /\ sent' = <<>>
    /\ resp' = NoResponse
    /\ result' = Unset
    /\ log' = <<>>
    /\ screen' = <<>>
    /\ prev_url' = IF sent /= <<>> THEN sent[Len(sent)].json.messages[1].content[2].image_url.url
                   ELSE prev_url

\* lines 14-24: the credential from the environment, else from the secrets
LoadCredential(env, secret) ==
    /\ pc = "config"
    /\ LET key == IF ~Falsy(env) THEN env ELSE secret IN
       /\ GROQ_API_KEY' = key
       /\ IF Falsy(key)
          THEN /\ screen' = Append(screen, Widget("error", PyStr(MSG_MISSING_KEY)))
               /\ pc' = "stopped"
          ELSE /\ screen' = screen
               /\ pc' = "upload"
    /\ UNCHANGED <<uploaded, pressed, user_prompt, temperature, image, payload, sent,
                   resp, result, log, prev_url>>

\* lines 135-141: the upload and its size check
UploadCheck ==
    /\ pc = "upload"
    /\ IF ~uploaded.present
       THEN pc' = "button" /\ screen' = screen
       ELSE IF UploadTooLarge(uploaded)
       THEN /\ screen' = Append(screen, Widget("error", PyStr(MSG_UPLOAD_TOO_LARGE)))
            /\ pc' = "stopped"
       ELSE pc' = "prepare" /\ screen' = screen
    /\ UNCHANGED <<GROQ_API_KEY, uploaded, pressed, user_prompt, temperature, image,
                   payload, sent, resp, result, log, prev_url>>

\* lines 144-146: image = prepare_image(uploaded); st.image(image)
PrepareImage ==
    /\ pc = "prepare"
    /\ log' = Append(log, "prepare_image")
    /\ LET r == prepare_image(uploaded) IN
       IF r.raised
       THEN /\ image' = image
            /\ screen' = Append(screen, Widget("exception", PyStr(r.exc.msg)))
            /\ pc' = "crashed"
       ELSE /\ image' = r.v
            /\ screen' = Append(screen, Widget("image", PyStr(<<"Uploaded Image">>)))
            /\ pc' = "button"
    /\ UNCHANGED <<GROQ_API_KEY, uploaded, pressed, user_prompt, temperature, payload,
                   sent, resp, result, prev_url>>

\* lines 152-157: the Analyze button; with an image, analyze_food_image is called
AnalyzeButton ==
    /\ pc = "button"
    /\ IF ~pressed
       THEN pc' = "done" /\ screen' = screen /\ log' = log
       ELSE IF image = NoImage
       THEN /\ screen' = Append(screen, Widget("warning", PyStr(MSG_UPLOAD_FIRST)))
            /\ pc' = "done"
            /\ log' = log
       ELSE /\ screen' = screen
            /\ pc' = "encode"
            /\ log' = Append(log, "analyze_food_image")
    /\ UNCHANGED <<GROQ_API_KEY, uploaded, pressed, user_prompt, temperature, image,
                   payload, sent, resp, result, prev_url>>

\* lines 79-95: img_b64 = encode_image_to_b64(image); payload = {...}
\* (outside the try: an exception here leaves analyze_food_image)
EncodeAndBuild ==
    /\ pc = "encode"
    /\ LET b == encode_image_to_b64(image) IN
       IF b.raised
       THEN /\ payload' = payload
            /\ screen' = Append(screen, Widget("exception", PyStr(b.exc.msg)))
            /\ pc' = "crashed"
       ELSE /\ payload' = BuildPayload(user_prompt, b.v, temperature)
            /\ screen' = screen
            /\ pc' = "post"
    /\ UNCHANGED <<GROQ_API_KEY, uploaded, pressed, user_prompt, temperature, image,
                   sent, resp, result, log, prev_url>>

\* line 98: resp = requests.post(GROQ_API_URL, headers=HEADERS, json=payload, timeout=120)
Post(outcome) ==
    /\ pc = "post"
    /\ sent' = Append(sent, Request(GROQ_API_KEY, payload))
    /\ log' = Append(log, "requests.post")
    /\ resp' = outcome
    /\ pc' = "classify"
    /\ UNCHANGED <<GROQ_API_KEY, uploaded, pressed, user_prompt, temperature, image,
                   payload, result, screen, prev_url>>

\* (mutant) posts again after a failed request
ClassifyMutRetry ==
    /\ pc = "classify"
    /\ IF resp.kind = "raise"
       THEN pc' = "post" /\ result' = result
       ELSE pc' = "write" /\ result' = TryPost(resp).v
    /\ UNCHANGED <<GROQ_API_KEY, uploaded, pressed, user_prompt, temperature, image,
                   payload, sent, resp, log, screen, prev_url>>
\* lines 100-113: the response is classified and analyze_food_image returns
Classify ==
    /\ pc = "classify"
    /\ result' = TryPost(resp).v
    /\ pc' = "write"
    /\ UNCHANGED <<GROQ_API_KEY, uploaded, pressed, user_prompt, temperature, image,
                   payload, sent, resp, log, screen, prev_url>>

\* lines 159-160: st.write(result)
WriteResult ==
    /\ pc = "write"
    /\ screen' = Append(screen, Widget("write", result))
    /\ pc' = "done"
    /\ UNCHANGED <<GROQ_API_KEY, uploaded, pressed, user_prompt, temperature, image,
                   payload, sent, resp, result, log, prev_url>>

Next ==
    \/ \E up \in Uploads, btn \in BOOLEAN, prompt \in Prompts, temp \in Temps :
          Rerun(up, btn, prompt, temp)
    \/ \E env \in EnvKeys, secret \in SecretKeys : LoadCredential(env, secret)
    \/ UploadCheck
    \/ PrepareImage
    \/ AnalyzeButton
    \/ EncodeAndBuild
    \/ \E outcome \in Outcomes : Post(outcome)
    \/ Classify
    \/ WriteResult

Spec == Init /\ [][Next]_vars

(***************************************************************************)
(* prepare_image alone, on a grid of image sizes around the 900 px edge.   *)
(***************************************************************************)
InitPrepare ==
    /\ pc = "prepare"
    /\ GROQ_API_KEY = "gsk_live"
    /\ uploaded \in PrepUploads
    /\ pressed = FALSE
    /\ user_prompt = default_prompt
    /\ temperature = SLIDER_DEFAULT
    /\ image = NoImage
    /\ payload = NoPayload
    /\ sent = <<>>
    /\ resp = NoResponse
    /\ result = Unset
    /\ log = <<>>
    /\ screen = <<>>
    /\ prev_url = <<>>

NextPrepare == PrepareImage

SpecPrepare == InitPrepare /\ [][NextPrepare]_vars

(***************************************************************************)
(* Helpers of the properties.                                              *)
(***************************************************************************)
InLog(e) == \E i \in 1..Len(log) : log[i] = e
CountLog(e) == Cardinality({i \in 1..Len(log) : log[i] = e})
\* sub occurs in text as a run of consecutive pieces
Contains(text, sub) ==
    \E i \in 1..(Len(text) - Len(sub) + 1) : SubSeq(text, i, i + Len(sub) - 1) = sub
Returned == pc \in {"write"} \/ (pc = "done" /\ InLog("analyze_food_image"))
Answered == Returned /\ resp.kind = "response"
Success2xx == 200 <= resp.status_code /\ resp.status_code < 300

\* structural reading of a parsed body, independent of the lookups above
HasKey(d, k) == d.t = "dict" /\ \E i \in 1..Len(d.v) : d.v[i][1] = k
Field(d, k) == d.v[CHOOSE i \in 1..Len(d.v) : d.v[i][1] = k][2]
HasFirstMessage(b) ==
    /\ ~b.text
    /\ HasKey(b.v, "choices")
    /\ Field(b.v, "choices").t = "list"
    /\ Field(b.v, "choices").v /= <<>>
    /\ HasKey(Field(b.v, "choices").v[1], "message")
FirstMessage(b) == Field(Field(b.v, "choices").v[1], "message")
HasContentPath(b) == HasFirstMessage(b) /\ HasKey(FirstMessage(b), "content")
HasSuccessShape(b) == HasContentPath(b) /\ Field(FirstMessage(b), "content").t = "str"

IsCommError(x) == x.t = "str" /\ Len(x.v) >= 2 /\ x.v[1] = MSG_COMM_ERROR
IsApiError(x) ==
    /\ x.t = "str"
    /\ x.v[1] = MSG_API_ERROR
    /\ Contains(x.v, <<ToString(resp.status_code)>>)
    /\ Contains(x.v, PyFormat(resp.body.v))

(***************************************************************************)
(* C1: every call of analyze_food_image returns a text string and raises   *)
(* nothing to its caller, whatever the endpoint does.                      *)
(* Fails: a success body whose first content is null makes it return None. *)
(***************************************************************************)
C1_AlwaysReturnsText ==
    /\ Returned => result.t = "str"
    /\ ~(pc = "crashed" /\ InLog("analyze_food_image"))

(***************************************************************************)
(* C2: a response of status 413 makes analyze_food_image return exactly    *)
(* the fixed "image too large" text, whatever the response body; it is     *)
(* neither the API-error nor the communication-error text.                 *)
(***************************************************************************)
C2_TooLargeWins ==
    (Answered /\ resp.status_code = 413) =>
        /\ result = PyStr(MSG_STILL_TOO_LARGE)
        /\ result.v[1] \notin {MSG_API_ERROR, MSG_COMM_ERROR}
C2_Witness ==
    /\ pc = "write" /\ resp.kind = "response" /\ resp.status_code = 413
    /\ ~resp.body.text /\ HasKey(resp.body.v, "error")
    /\ result = PyStr(MSG_STILL_TOO_LARGE)

(***************************************************************************)
(* C3 as stated: a response whose status is not 2xx and not 413 and whose  *)
(* body parses as JSON gives the API-error text with the status code and   *)
(* the parsed body.  Fails for a 3xx response, which requests counts as ok.*)
(***************************************************************************)
C3_Original ==
    (Answered /\ ~Success2xx /\ resp.status_code /= 413 /\ ~resp.body.text) =>
        IsApiError(result)
(***************************************************************************)
(* C3 amended: a response whose status is an error status (400 to 599)     *)
(* other than 413 and whose body parses as JSON gives the API-error text   *)
(* with the status code and the parsed body, not the body's content and    *)
(* not the communication-error text.                                       *)
(***************************************************************************)
C3_ApiError ==
    (Answered /\ 400 <= resp.status_code /\ resp.status_code < 600
              /\ resp.status_code /= 413 /\ ~resp.body.text) =>
        /\ IsApiError(result)
        /\ ~IsCommError(result)
        /\ (HasSuccessShape(resp.body) => result /= Field(FirstMessage(resp.body), "content"))
C3_Witness ==
    /\ pc = "write" /\ resp.kind = "response" /\ resp.status_code = 500
    /\ resp.body = Json(PyDict(<< <<"error", PyStr(<<"bad request">>)>> >>))
    /\ Contains(result.v, <<"500">>) /\ Contains(result.v, <<"bad request">>)

(***************************************************************************)
(* C4: a 2xx response whose body has the shape                             *)
(* {choices:[{message:{content:<string>}}, ...]} makes analyze_food_image  *)
(* return the first choice's content verbatim, never a later choice's.     *)
(***************************************************************************)
C4_FirstContentVerbatim ==
    (Answered /\ Success2xx /\ resp.status_code /= 413 /\ HasSuccessShape(resp.body)) =>
        result = Field(FirstMessage(resp.body), "content")
C4_Witness ==
    /\ pc = "write" /\ resp.kind = "response" /\ resp.status_code = 201
    /\ HasSuccessShape(resp.body)
    /\ Len(Field(resp.body.v, "choices").v) = 2
    /\ result = PyStr(<<" ", "1) Rice - ~200 cal", "\n">>)

(***************************************************************************)
(* C5: an exception in the request lifecycle (connection failure, timeout, *)
(* an unparseable body of a non-success non-413 response, a success body   *)
(* that is no JSON or lacks the expected keys) is caught and the call      *)
(* returns the communication-error text with the exception's description.  *)
(***************************************************************************)
C5_ExceptionCase ==
    \/ resp.kind = "raise"
    \/ resp.kind = "response" /\ resp.status_code /= 413 /\ resp.body.text
    \/ resp.kind = "response" /\ Success2xx /\ ~resp.body.text /\ ~HasContentPath(resp.body)
C5_CaughtAsText ==
    (Returned /\ C5_ExceptionCase) =>
        /\ IsCommError(result)
        /\ (resp.kind = "raise" => SubSeq(result.v, 2, Len(result.v)) = resp.exc.msg)
        /\ (resp.kind = "response" /\ resp.status_code >= 400) =>
               Contains(result.v, <<ToString(resp.status_code)>>)
C5_Witness ==
    /\ pc = "write" /\ resp.kind = "raise" /\ resp.exc.type = "ReadTimeout"
    /\ IsCommError(result) /\ Contains(result.v, <<"Read timed out. (read timeout=", "120", ")">>)

(***************************************************************************)
(* C6: a call of analyze_food_image posts exactly once; after any outcome  *)
(* it returns without a second request.                                    *)
(***************************************************************************)
C6_SinglePost ==
    /\ Len(sent) <= 1
    /\ CountLog("requests.post") <= 1
    /\ Returned => (Len(sent) = 1 /\ CountLog("requests.post") = 1)
C6_Witness ==
    /\ pc = "done" /\ InLog("analyze_food_image") /\ resp.kind = "raise" /\ Len(sent) = 1

(***************************************************************************)
(* C7: an upload whose declared size exceeds 4 MiB is rejected before      *)
(* preparation: prepare_image is not called on it and nothing is posted in *)
(* that interaction, also when Analyze was pressed; an upload of 4 MiB or  *)
(* less proceeds to preparation.                                           *)
(***************************************************************************)
FourMiB == 4 * 1024 * 1024
PastUploadCheck == pc \notin {"idle", "config", "upload"} /\ ~Falsy(GROQ_API_KEY)
C7_OversizeRejected ==
    /\ (uploaded.present /\ uploaded.size > FourMiB) =>
           /\ ~InLog("prepare_image")
           /\ ~InLog("requests.post")
           /\ ~InLog("analyze_food_image")
           /\ image = NoImage
           /\ sent = <<>>
           /\ PastUploadCheck => pc = "stopped"
    /\ (uploaded.present /\ uploaded.size <= FourMiB /\ PastUploadCheck) =>
           (pc = "prepare" \/ InLog("prepare_image"))
C7_Witness ==
    /\ pc = "stopped" /\ pressed /\ ~Falsy(GROQ_API_KEY)
    /\ uploaded.present /\ uploaded.decodable /\ uploaded.size = FourMiB + 1
    /\ log = <<>>

(***************************************************************************)
(* C8 as stated: with the credential present, an upload of at most 4 MiB   *)
(* and Analyze pressed, the interaction reaches analyze_food_image and     *)
(* shows what it returned.  Fails for an upload that does not decode:      *)
(* prepare_image raises and the interaction ends before any request.       *)
(***************************************************************************)
C8_Precondition ==
    /\ pc \in Terminal
    /\ ~Falsy(GROQ_API_KEY)
    /\ uploaded.present /\ uploaded.size <= FourMiB
    /\ pressed
C8_Delivered ==
    /\ pc = "done"
    /\ InLog("analyze_food_image")
    /\ InLog("requests.post")
    /\ result /= Unset
    /\ screen /= <<>>
    /\ screen[Len(screen)] = Widget("write", result)
C8_Original == C8_Precondition => C8_Delivered
(***************************************************************************)
(* C8 amended: with the credential present, an upload of at most 4 MiB     *)
(* that prepare_image decodes, and Analyze pressed, the interaction        *)
(* reaches analyze_food_image and shows what it returned.                  *)
(***************************************************************************)
C8_ReachesDispatch == (C8_Precondition /\ uploaded.decodable) => C8_Delivered
C8_Witness ==
    /\ C8_Precondition /\ uploaded.decodable /\ uploaded.mode = "RGBA"
    /\ resp.kind = "raise"
    /\ screen[Len(screen)] = Widget("write", result)

(***************************************************************************)
(* C9: prepare_image returns an image with neither side over 900 px: when  *)
(* the input's long edge exceeds 900 the result's long edge is exactly 900 *)
(* and the short edge is the proportionally scaled value (within a pixel,  *)
(* at least 1); an input within 900 x 900 keeps its size.                  *)
(***************************************************************************)
C9_Prepared == pc = "button" /\ image /= NoImage
C9_BoundedEdges ==
    C9_Prepared =>
        LET w == uploaded.width
            h == uploaded.height
            long == IF w >= h THEN w ELSE h
            short == IF w >= h THEN h ELSE w
            newLong == IF w >= h THEN image.width ELSE image.height
            newShort == IF w >= h THEN image.height ELSE image.width
        IN /\ image.width <= 900 /\ image.height <= 900
           /\ long > 900 =>
                 /\ newLong = 900
                 /\ newShort >= 1
                 /\ newShort <= newLong
                 /\ newShort * long - 900 * short < long
                 /\ 900 * short - newShort * long < long
           /\ long <= 900 => (image.width = w /\ image.height = h)
C9_Witness ==
    /\ C9_Prepared
    /\ uploaded.width = 1800 /\ uploaded.height = 450
    /\ image.width = 900 /\ image.height = 225

(***************************************************************************)
(* C10: the request body sent carries the caller's temperature unchanged   *)
(* (0.0 and 1.0 included), max_tokens 700, stream false, the fixed model,  *)
(* and one "user" message whose content is the instruction as a text part  *)
(* followed by an image_url part with a data URI of this call's image.     *)
(***************************************************************************)
B64Index(ch) == (CHOOSE i \in 1..64 : B64Alphabet[i] = ch) - 1
RECURSIVE B64Decode(_)
B64Decode(chars) ==
    IF Len(chars) < 4 THEN <<>>
    ELSE LET a == B64Index(chars[1])
             b == B64Index(chars[2])
             c == IF chars[3] = "=" THEN 0 ELSE B64Index(chars[3])
             d == IF chars[4] = "=" THEN 0 ELSE B64Index(chars[4])
             b1 == a * 4 + b \div 16
             b2 == (b % 16) * 16 + c \div 4
             b3 == (c % 4) * 64 + d
         IN (IF chars[3] = "=" THEN <<b1>>
             ELSE IF chars[4] = "=" THEN <<b1, b2>>
             ELSE <<b1, b2, b3>>) \o B64Decode(SubSeq(chars, 5, Len(chars)))
C10_BodyOf(req) ==
    LET body == req.json
        url == body.messages[1].content[2].image_url.url
        bytes == B64Decode(SubSeq(url, 2, Len(url)))
    IN /\ req.url = GROQ_API_URL
       /\ body.temperature = temperature
       /\ body.max_tokens = 700
       /\ body.stream = FALSE
       /\ body.model = "meta-llama/llama-4-scout-17b-16e-instruct"
       /\ Len(body.messages) = 1
       /\ body.messages[1].role = "user"
       /\ Len(body.messages[1].content) = 2
       /\ body.messages[1].content[1] = [type |-> "text", text |-> user_prompt]
       /\ body.messages[1].content[2].type = "image_url"
       /\ url[1] = "data:image/jpeg;base64,"
       /\ Len(bytes) = 9
       /\ bytes[1] = 255 /\ bytes[2] = 216
       /\ bytes[3] = 80
       /\ bytes[4] * 256 + bytes[5] = image.height
       /\ bytes[6] * 256 + bytes[7] = image.width
C10_RequestBody ==
    /\ \A i \in 1..Len(sent) : C10_BodyOf(sent[i])
    /\ Returned => Len(sent) = 1
C10_Witness ==
    /\ pc = "classify" /\ Len(sent) = 1
    /\ temperature = 0
    /\ prev_url /= <<>>
    /\ prev_url /= sent[1].json.messages[1].content[2].image_url.url
    /\ C10_BodyOf(sent[1])

====
